---- MODULE Spec2Model ----
(***************************************************************************)
(* TCP-over-6LoWPAN output path of net/sixlowpan/sixlowpan_tcpsend.c:      *)
(*   psock_6lowpan_tcp_send()  socket-initiated send                        *)
(*   sixlowpan_tcp_send()      flush of TCP state-machine output            *)
(* Both run with the network locked, so each call is one atomic action.    *)
(* The record `last` is the observation of the most recent call: what it   *)
(* returned, which collaborators it called and with what arguments.        *)
(***************************************************************************)
EXTENDS Integers, Sequences, FiniteSets, TLC

VARIABLES
  cfg,    \* the build configuration, fixed for a behaviour
  socks,  \* socks[i]: the struct socket of socket i
  devs,   \* devs[d]: the struct net_driver_s of device d
  last    \* the observation of the call made last, NoObs once it is taken

vars == <<cfg, socks, devs, last>>

(***************************************************************************)
(* Bounds of the model                                                     *)
(***************************************************************************)
MaxLen == 1
MaxCrefs == 1
MaxTimeo == 1
MaxPayload == 1

(***************************************************************************)
(* Program constants                                                       *)
(***************************************************************************)
EBADF == 9
ENOTCONN == 107
EPROTOTYPE == 91
ENETUNREACH == 101

_SF_IDLE == 0
_SF_RECV == 2
_SF_SEND == 3
_SF_MASK == 3
_SF_CONNECTED == 64

IPv6_HDRLEN == 40
TCP_HDRLEN == 20
IP_PROTO_TCP == 6
IP_PROTO_UDP == 17

\* Width of size_t.  It is target dependent; 16 is the narrowest size_t of a
\* supported target, and 2^SIZE_BITS stays within the range of TLC integers.
SIZE_BITS == 16

NULL == "NULL"
SockIds == {"s1"}
DevIds == {"D1", "D2"}

(***************************************************************************)
(* Addresses.  An IPv6 address is <<prefix, iid>>: the network prefix and  *)
(* the interface identifier that embeds the link-layer (Rime) address.     *)
(***************************************************************************)
Addrs == {<<1, 1>>, <<1, 2>>, <<2, 1>>, <<3, 1>>}

\* Device registry: the prefix each registered device is attached to.
g_netdevices == [D1 |-> 1, D2 |-> 2]

\* Neighbor table: the addresses icmpv6_neighbor() can confirm.
g_neighbors == {<<1, 1>>, <<2, 1>>, <<3, 1>>}

\* sixlowpan_rimefromip(): the Rime address embedded in the IPv6 address.
sixlowpan_rimefromip(ipaddr) == ipaddr[2]

\* netdev_findby_ipv6addr(): the device on whose network ripaddr lies.
netdev_findby_ipv6addr(ripaddr) ==
  IF \E d \in DevIds : g_netdevices[d] = ripaddr[1]
    THEN CHOOSE d \in DevIds : g_netdevices[d] = ripaddr[1]
    ELSE NULL

\* icmpv6_neighbor(): 0 when the address is (or can be put) in the Neighbor
\* Table, a negated errno otherwise.
icmpv6_neighbor(ipaddr) == IF ipaddr \in g_neighbors THEN 0 ELSE -1

(***************************************************************************)
(* Socket flag macros                                                      *)
(***************************************************************************)
_SS_GETSTATE(s) == s % (_SF_MASK + 1)

\* _SS_SETSTATE(s,f) = ((s) & ~_SF_MASK) | (f)
_SS_SETSTATE(s, f) == (s - (s % (_SF_MASK + 1))) + f

\* _SS_ISCONNECTED(s) = ((s) & _SF_CONNECTED) != 0
_SS_ISCONNECTED(s) == (s \div _SF_CONNECTED) % 2 = 1


(***************************************************************************)
(* Domains of the program state                                            *)
(***************************************************************************)
\* The build configuration (CONFIG_...) the code is compiled under.  The two
\* CONFIG_NETDEV_MULTINIC variants of the device lookup differ only in the
\* arguments handed to netdev_findby_ipv6addr() and in the text of the
\* warning, so that option is not a field.
Configs ==
  [NET_IPv4 : BOOLEAN, NETDEV_MULTILINK : BOOLEAN,
   NET_ICMPv6_NEIGHBOR : BOOLEAN, NET_SOCKOPTS : BOOLEAN,
   DEBUG_ASSERTIONS : BOOLEAN]

\* struct tcp_conn_s: the fields the output path reads.
Conns == [domain : {"PF_INET6", "PF_INET"}, raddr : Addrs]

FlagValues == {c + st : c \in {0, _SF_CONNECTED}, st \in {_SF_IDLE, _SF_RECV}}

\* struct socket
Sockets ==
  [s_crefs : 0..MaxCrefs, s_type : {"SOCK_STREAM", "SOCK_DGRAM"},
   s_flags : FlagValues, s_conn : Conns, s_sndtimeo : 0..MaxTimeo]

HdrLen == IPv6_HDRLEN + TCP_HDRLEN

DLens == {0} \cup ((HdrLen - 1)..(HdrLen + MaxPayload))

\* struct net_driver_s; d_buf holds the fields of the leading IPv6 header.
Devices ==
  [d_len : DLens,
   d_buf : [proto : {IP_PROTO_TCP, IP_PROTO_UDP}, destipaddr : {<<1, 1>>, <<1, 2>>}],
   d_lltype : {"NET_LL_IEEE802154", "NET_LL_ETHERNET"}]

Lens == 0..MaxLen

\* A socket holds a peer address and a send timeout of its own only once it
\* is a referenced, connected stream socket of the IPv6 family; in any other
\* socket those fields are at their initial values.  The body of
\* psock_6lowpan_tcp_send() reads none of them in such a socket.
Settled(s) ==
  LET unconnected == \/ s.s_crefs <= 0
                     \/ s.s_type # "SOCK_STREAM"
                     \/ ~_SS_ISCONNECTED(s.s_flags)
  IN /\ s.s_crefs <= 0 => s.s_type = "SOCK_STREAM" /\ _SS_ISCONNECTED(s.s_flags)
     /\ unconnected => s.s_conn.domain = "PF_INET6"
     /\ (unconnected \/ s.s_conn.domain # "PF_INET6")
          => s.s_conn.raddr = <<1, 1>> /\ s.s_sndtimeo = 0

\* What sixlowpan_send() may report for a payload of len bytes: all of it,
\* part of it, or a negated errno.
SendResults(len) == (0..len) \cup {-110, -12}

\* What sixlowpan_queue_frames() may report.
QueueResults == {0, -12}

\* The observation of a call, before anything has happened in it.
NoObs ==
  [op |-> "none", arg |-> NULL, len |-> 0, outcome |-> "none", ret |-> 0,
   sent |-> <<>>, ndevlookup |-> 0, nneighbor |-> 0, nwarn |-> 0, nerr |-> 0,
   nullderef |-> FALSE, flags0 |-> 0, flags1 |-> 0, d_len0 |-> 0]

(***************************************************************************)
(* psock_6lowpan_tcp_send(psock, buf, len)                                 *)
(*                                                                         *)
(* The body is evaluated on s, the contents of *psock.  For psock = NULL   *)
(* the reads of psock-> are undefined: s is then whatever the memory at    *)
(* address zero holds, or the access traps (fault).                        *)
(***************************************************************************)

\* DEBUGASSERT(psock != NULL && psock->s_crefs > 0);
\* DEBUGASSERT(psock->s_type == SOCK_STREAM);
SendAsserts(psock, s) ==
  /\ psock # NULL /\ s.s_crefs > 0
  /\ s.s_type = "SOCK_STREAM"

\* if (psock != NULL || psock->s_crefs <= 0)
InvalidSocket(psock, s) == psock # NULL \/ s.s_crefs <= 0

\* if (psock->s_type != SOCK_STREAM || !_SS_ISCONNECTED(psock->s_flags))
NotConnected(s) == s.s_type # "SOCK_STREAM" \/ ~_SS_ISCONNECTED(s.s_flags)

\* #ifdef CONFIG_NET_IPv4: if (conn->domain != PF_INET6)
NotIPv6(c, conn) == c.NET_IPv4 /\ conn.domain # "PF_INET6"

\* if (dev == NULL || dev->d_lltype != NET_LL_IEEE802154), the second test
\* only with CONFIG_NETDEV_MULTILINK.
NotRoutable(c, dv, dev) ==
  \/ dev = NULL
  \/ c.NETDEV_MULTILINK /\ dv[dev].d_lltype # "NET_LL_IEEE802154"

\* Mutant of SendTimeout: the send timeout of the socket is never read.
SendTimeoutZero(c, s) == 0

\* timeout = psock->s_sndtimeo, or 0 without CONFIG_NET_SOCKOPTS.
SendTimeout(c, s) == IF c.NET_SOCKOPTS THEN s.s_sndtimeo ELSE 0

\* Mutant of SendReturn: a failure of the dispatcher is reported as the
\* generic -1 of the function's header comment.
SendReturnGeneric(ret) == IF ret < 0 THEN -1 ELSE ret

\* The value returned once sixlowpan_send() has reported ret.
SendReturn(ret) == ret

\* Mutant of FlagsOnEarlyReturn: the state is set to sending on entry and an
\* early return forgets to restore it.
FlagsLeftSending(flags) == _SS_SETSTATE(flags, _SF_SEND)

\* Mutant of FlagsOnEarlyReturn: an early return stores _SF_IDLE into the
\* whole flag word instead of leaving it, dropping the other flag bits.
FlagsCleared(flags) == _SF_IDLE

\* psock->s_flags as the call leaves it when it returns before the
\* "Set the socket state to sending" step.
FlagsOnEarlyReturn(flags) == flags

\* psock->s_flags after "Set the socket state to idle".
FlagsOnReturn(flags) == _SS_SETSTATE(flags, _SF_IDLE)

\* Mutant of FlagsAtDispatch: the state is set to sending only after the
\* dispatcher has been called.
FlagsAtDispatchUnset(flags) == flags

\* psock->s_flags after "Set the socket state to sending", the value the
\* code has stored when it calls sixlowpan_send().
FlagsAtDispatch(flags) == _SS_SETSTATE(flags, _SF_SEND)

\* An early return with a negated errno; w and e count the nwarn() and
\* nerr() calls made on the way.
SendFail(s, errno, nd, nn, w, e) ==
  [outcome |-> "return", ret |-> -errno, sent |-> <<>>, ndevlookup |-> nd,
   nneighbor |-> nn, nwarn |-> w, nerr |-> e,
   flags |-> FlagsOnEarlyReturn(s.s_flags)]

\* The call stops without returning: a failed assertion or a trap.
SendStop(s, how, nd, nn) ==
  [outcome |-> how, ret |-> 0, sent |-> <<>>, ndevlookup |-> nd,
   nneighbor |-> nn, nwarn |-> 0, nerr |-> 0, flags |-> s.s_flags]

\* Lines 163-196: mark sending, derive the address, dispatch, mark idle.
SendDispatch(c, psock, s, dev, len, r, fault, nn) ==
  IF psock = NULL /\ fault = "write"
    THEN SendStop(s, "fault", 1, nn)
    ELSE
      LET sending == FlagsAtDispatch(s.s_flags)
          call == [fn |-> "sixlowpan_send", dev |-> dev, off |-> 0, len |-> len,
                   dest |-> sixlowpan_rimefromip(s.s_conn.raddr),
                   timeout |-> SendTimeout(c, s), flags |-> sending,
                   sndtimeo |-> IF c.NET_SOCKOPTS THEN s.s_sndtimeo ELSE 0,
                   result |-> r]
      IN [outcome |-> "return", ret |-> SendReturn(r), sent |-> <<call>>,
          ndevlookup |-> 1, nneighbor |-> nn, nwarn |-> 0,
          nerr |-> IF r < 0 THEN 1 ELSE 0,
          flags |-> FlagsOnReturn(sending)]

\* Lines 126-161: route to the device and confirm the neighbor.
SendRoute(c, dv, psock, s, len, r, fault) ==
  LET dev == netdev_findby_ipv6addr(s.s_conn.raddr) IN
    IF NotRoutable(c, dv, dev)
      THEN SendFail(s, ENETUNREACH, 1, 0, 1, 0)
      ELSE IF c.NET_ICMPv6_NEIGHBOR
        THEN IF icmpv6_neighbor(s.s_conn.raddr) < 0
               THEN SendFail(s, ENETUNREACH, 1, 1, 0, 1)
               ELSE SendDispatch(c, psock, s, dev, len, r, fault, 1)
        ELSE SendDispatch(c, psock, s, dev, len, r, fault, 0)

\* The whole body, lines 92-196.
SendBody(c, dv, psock, s, len, r, fault) ==
  IF c.DEBUG_ASSERTIONS /\ ~SendAsserts(psock, s)
    THEN SendStop(s, "assert", 0, 0)
  ELSE IF psock = NULL /\ fault = "read"
    THEN SendStop(s, "fault", 0, 0)
  ELSE IF InvalidSocket(psock, s)
    THEN SendFail(s, EBADF, 0, 0, 0, 1)
  ELSE IF NotConnected(s)
    THEN SendFail(s, ENOTCONN, 0, 0, 0, 1)
  ELSE IF NotIPv6(c, s.s_conn)
    THEN SendFail(s, EPROTOTYPE, 0, 0, 1, 0)
  ELSE SendRoute(c, dv, psock, s, len, r, fault)

\* Whether the call reads through psock although it is NULL: the right
\* operand of the test of line 97 is evaluated when the left one is false.
SendDerefsNull(c, psock) == psock = NULL /\ ~c.DEBUG_ASSERTIONS

\* What the memory at address zero may hold, read as a struct socket: any
\* content the body can tell apart.
NullViews == {s \in Sockets : Settled(s) /\ _SS_GETSTATE(s.s_flags) = _SF_IDLE}

\* What *psock holds.
SockView(psock) == IF psock = NULL THEN NullViews ELSE {socks[psock]}

FaultPoints(psock) == IF psock = NULL THEN {"none", "read", "write"} ELSE {"none"}

SendOutcomes(psock, len) ==
  {SendBody(cfg, devs, psock, s, len, r, f) :
     s \in SockView(psock), r \in SendResults(len), f \in FaultPoints(psock)}

psock_6lowpan_tcp_send(psock, len) ==
  /\ last.op = "none"
  /\ \E res \in SendOutcomes(psock, len) :
    /\ socks' = IF psock = NULL THEN socks
                ELSE [socks EXCEPT ![psock].s_flags = res.flags]
    /\ last' = [op |-> "psock_6lowpan_tcp_send", arg |-> psock, len |-> len,
                outcome |-> res.outcome, ret |-> res.ret, sent |-> res.sent,
                ndevlookup |-> res.ndevlookup, nneighbor |-> res.nneighbor,
                nwarn |-> res.nwarn, nerr |-> res.nerr,
                nullderef |-> SendDerefsNull(cfg, psock),
                flags0 |-> IF psock = NULL THEN 0 ELSE socks[psock].s_flags,
                flags1 |-> IF psock = NULL THEN 0 ELSE res.flags,
                d_len0 |-> 0]
    /\ UNCHANGED <<cfg, devs>>

(***************************************************************************)
(* sixlowpan_tcp_send(dev)                                                 *)
(***************************************************************************)

\* DEBUGASSERT(dev != NULL && dev->d_len > 0);
FlushAsserts(dv, dev) == dev # NULL /\ dv[dev].d_len > 0

\* Mutant of FlushDoubleCheck: only the pointer is checked, not the length.
FlushDoubleCheckNoLen(dv, dev) == dev # NULL

\* if (dev != NULL && dev->d_len > 0)
FlushDoubleCheck(dv, dev) == dev # NULL /\ dv[dev].d_len > 0

\* Mutant of NotTcp: the protocol of the header is not looked at.
NotTcpUnchecked(ipv6hdr) == FALSE

\* if (ipv6hdr->proto != IP_PROTO_TCP)
NotTcp(ipv6hdr) == ipv6hdr.proto # IP_PROTO_TCP

\* if (hdrlen < dev->d_len)
PacketTooSmall(hdrlen, d_len) == hdrlen < d_len

\* dev->d_len - hdrlen, in size_t arithmetic.
PayloadLen(d_len, hdrlen) == (d_len - hdrlen) % (2 ^ SIZE_BITS)

\* Mutant of FlushReset: the buffer is left as it was.
FlushResetForgotten(d_len) == d_len

\* dev->d_len = 0, the last statement of the function.
FlushReset(d_len) == 0

\* Lines 230-276: the calls to sixlowpan_queue_frames() and the warnings
\* of one flush; q is what sixlowpan_queue_frames() would report.
FlushBody(dv, dev, q) ==
  IF ~FlushDoubleCheck(dv, dev)
    THEN [sent |-> <<>>, nwarn |-> 0]
  ELSE IF NotTcp(dv[dev].d_buf)
    THEN [sent |-> <<>>, nwarn |-> 1]
  ELSE IF PacketTooSmall(HdrLen, dv[dev].d_len)
    THEN [sent |-> <<>>, nwarn |-> 1]
  ELSE [sent |-> <<[fn |-> "sixlowpan_queue_frames", dev |-> dev,
                    off |-> HdrLen,
                    len |-> PayloadLen(dv[dev].d_len, HdrLen),
                    dest |-> sixlowpan_rimefromip(dv[dev].d_buf.destipaddr),
                    timeout |-> 0, flags |-> 0, sndtimeo |-> 0,
                    result |-> q]>>,
        nwarn |-> 0]

\* The store of line 278 goes through dev whatever it is: through a NULL
\* dev it is undefined, and either traps or lands in the memory at zero.
FlushEnds(dev) == IF dev = NULL THEN {"fault", "return"} ELSE {"return"}

sixlowpan_tcp_send(dev) ==
  /\ last.op = "none"
  /\ IF cfg.DEBUG_ASSERTIONS /\ ~FlushAsserts(devs, dev)
         THEN /\ last' = [NoObs EXCEPT !.op = "sixlowpan_tcp_send", !.arg = dev,
                                       !.outcome = "assert",
                                       !.d_len0 = IF dev = NULL THEN 0 ELSE devs[dev].d_len]
              /\ UNCHANGED <<cfg, socks, devs>>
         ELSE \E q \in QueueResults, end \in FlushEnds(dev) :
                LET res == FlushBody(devs, dev, q) IN
                  /\ devs' = IF dev = NULL THEN devs
                             ELSE [devs EXCEPT ![dev].d_len = FlushReset(devs[dev].d_len)]
                  /\ last' = [NoObs EXCEPT !.op = "sixlowpan_tcp_send", !.arg = dev,
                                           !.outcome = end, !.sent = res.sent,
                                           !.nwarn = res.nwarn,
                                           !.nullderef = (dev = NULL),
                                           !.d_len0 = IF dev = NULL THEN 0
                                                      ELSE devs[dev].d_len]
                  /\ UNCHANGED <<cfg, socks>>

(***************************************************************************)
(* The state machine                                                       *)
(***************************************************************************)
\* A configuration fixes which fields exist: without CONFIG_NET_IPv4 every
\* connection is IPv6, without CONFIG_NET_SOCKOPTS there is no send timeout,
\* without CONFIG_NETDEV_MULTILINK every device is an IEEE 802.15.4 one.
\* The reference count of a socket passed by the socket layer is not negative.
SockFits(c, s) ==
  /\ c.NET_IPv4 \/ s.s_conn.domain = "PF_INET6"
  /\ c.NET_SOCKOPTS \/ s.s_sndtimeo = 0

\* Any configuration and any socket; D1 is an IEEE 802.15.4 device, D2 a
\* device of either link type; no output is pending.
InitSend ==
  /\ cfg \in Configs
  /\ socks \in [SockIds -> {s \in Sockets : Settled(s) /\ SockFits(cfg, s)}]
  /\ \E t \in {"NET_LL_IEEE802154", "NET_LL_ETHERNET"} :
       /\ cfg.NETDEV_MULTILINK \/ t = "NET_LL_IEEE802154"
       /\ devs = [d \in DevIds |->
                   [d_len |-> 0,
                    d_buf |-> [proto |-> IP_PROTO_TCP, destipaddr |-> <<1, 1>>],
                    d_lltype |-> IF d = "D1" THEN "NET_LL_IEEE802154" ELSE t]]
  /\ last = NoObs

\* Any transmit buffer in D1, with or without output pending in D2; one
\* connected, idle socket.
InitFlush ==
  /\ cfg \in {c \in Configs : /\ ~c.NET_IPv4 /\ ~c.NET_SOCKOPTS
                               /\ ~c.NET_ICMPv6_NEIGHBOR /\ ~c.NETDEV_MULTILINK}
  /\ socks = [i \in SockIds |->
               [s_crefs |-> 1, s_type |-> "SOCK_STREAM",
                s_flags |-> _SF_CONNECTED + _SF_IDLE,
                s_conn |-> [domain |-> "PF_INET6", raddr |-> <<1, 1>>],
                s_sndtimeo |-> 0]]
  /\ \E d1 \in {d \in Devices : d.d_lltype = "NET_LL_IEEE802154"},
        n2 \in {0, HdrLen} :
       devs = [D1 |-> d1,
               D2 |-> [d_len |-> n2,
                       d_buf |-> [proto |-> IP_PROTO_TCP, destipaddr |-> <<1, 2>>],
                       d_lltype |-> "NET_LL_IEEE802154"]]
  /\ last = NoObs

Init == InitSend \/ InitFlush

\* The caller (send()/sendto(), or the TCP input path) has taken the outcome
\* of the call it made and goes on; the next call starts a new observation.
caller_continues ==
  /\ last.op # "none"
  /\ last.outcome = "return"
  /\ last' = NoObs
  /\ UNCHANGED <<cfg, socks, devs>>

Next ==
  \/ \E psock \in SockIds \cup {NULL}, len \in Lens : psock_6lowpan_tcp_send(psock, len)
  \/ \E dev \in DevIds \cup {NULL} : sixlowpan_tcp_send(dev)
  \/ caller_continues

Spec == Init /\ [][Next]_vars

TypeOK ==
  /\ cfg \in Configs
  /\ \A i \in SockIds : socks[i] \in Sockets \/ _SS_GETSTATE(socks[i].s_flags) = _SF_SEND
  /\ \A d \in DevIds : devs[d].d_len \in DLens

(***************************************************************************)
(* Properties                                                              *)
(***************************************************************************)
\* last is a call of psock_6lowpan_tcp_send() on an existing socket.
SendOn == last.op = "psock_6lowpan_tcp_send" /\ last.arg \in SockIds

SendReturned == SendOn /\ last.outcome = "return"

\* last is a call of sixlowpan_tcp_send() on an existing device whose
\* transmit buffer held output (d_len > 0), and the call has returned.
FlushReturned ==
  /\ last.op = "sixlowpan_tcp_send" /\ last.arg \in DevIds
  /\ last.d_len0 > 0 /\ last.outcome = "return"

\* The socket of the call is referenced; a connected stream socket; one of
\* the IPv6 family.
Referenced == socks[last.arg].s_crefs > 0

Established ==
  /\ socks[last.arg].s_type = "SOCK_STREAM"
  /\ _SS_ISCONNECTED(last.flags0)

IsIPv6 == socks[last.arg].s_conn.domain = "PF_INET6"

Peer == socks[last.arg].s_conn.raddr

\* The peer address maps to an IEEE 802.15.4 device.
PeerRoutable ==
  /\ netdev_findby_ipv6addr(Peer) # NULL
  /\ devs[netdev_findby_ipv6addr(Peer)].d_lltype = "NET_LL_IEEE802154"

\* C1: a call of psock_6lowpan_tcp_send() that starts with the send state of
\* the socket idle and returns leaves the send state idle.
C1_IdleAfterSend ==
  (SendReturned /\ _SS_GETSTATE(last.flags0) = _SF_IDLE)
    => _SS_GETSTATE(socks[last.arg].s_flags) = _SF_IDLE

C1_Witness ==
  /\ SendReturned /\ _SS_GETSTATE(last.flags0) = _SF_IDLE
  /\ Referenced /\ Established
  /\ _SS_GETSTATE(socks[last.arg].s_flags) = _SF_IDLE

\* C2: a call of sixlowpan_tcp_send() on a device with d_len > 0 leaves
\* d_len = 0, whether it dispatched (with success or failure) or skipped.
C2_FlushResetsLen == FlushReturned => devs[last.arg].d_len = 0

C2_Witness ==
  /\ FlushReturned /\ devs[last.arg].d_len = 0
  /\ Len(last.sent) = 1 /\ last.sent[1].result < 0

\* C3: psock_6lowpan_tcp_send() returns -EBADF exactly when the socket is
\* NULL or its reference count is <= 0; a NULL socket yields -EBADF without
\* any access through it.  (Stated for a build without debug assertions,
\* where the test of line 97 is what rejects such a socket.)
C3_BadfIffInvalid ==
  (last.op = "psock_6lowpan_tcp_send" /\ ~cfg.DEBUG_ASSERTIONS) =>
    /\ last.arg = NULL =>
         last.outcome = "return" /\ last.ret = -EBADF /\ ~last.nullderef
    /\ last.arg # NULL =>
         ((last.outcome = "return" /\ last.ret = -EBADF)
            <=> socks[last.arg].s_crefs <= 0)

\* C4: on a referenced socket that is not a stream socket or not connected
\* the call returns -ENOTCONN, with no device lookup, no neighbor lookup
\* and no call of the dispatcher.  (Build without debug assertions.)
C4_NotConnected ==
  (SendOn /\ ~cfg.DEBUG_ASSERTIONS /\ Referenced /\ ~Established) =>
    /\ last.outcome = "return" /\ last.ret = -ENOTCONN
    /\ last.ndevlookup = 0 /\ last.nneighbor = 0 /\ last.sent = <<>>

\* C5: on a referenced, connected IPv6 stream socket whose peer maps to an
\* IEEE 802.15.4 device D and is in the neighbor table, the call invokes the
\* dispatcher exactly once, with D, the length len and the link-layer
\* address derived from the peer address.
C5_DispatchOnce ==
  (SendOn /\ Referenced /\ Established /\ IsIPv6 /\ PeerRoutable
     /\ Peer \in g_neighbors) =>
    /\ Len(last.sent) = 1
    /\ last.sent[1].fn = "sixlowpan_send"
    /\ last.sent[1].dev = netdev_findby_ipv6addr(Peer)
    /\ last.sent[1].len = last.len
    /\ last.sent[1].dest = sixlowpan_rimefromip(Peer)

C7_NotRoutable ==
  (SendOn /\ Referenced /\ Established /\ IsIPv6
     /\ _SS_GETSTATE(last.flags0) = _SF_IDLE
     /\ (~PeerRoutable \/ (cfg.NET_ICMPv6_NEIGHBOR /\ Peer \notin g_neighbors))) =>
    /\ last.outcome = "return" /\ last.ret = -ENETUNREACH
    /\ last.sent = <<>>
    /\ _SS_GETSTATE(socks[last.arg].s_flags) = _SF_IDLE

\* C8: when the header declares TCP and d_len is smaller than the combined
\* IPv6+TCP header length, sixlowpan_tcp_send() does not invoke the
\* dispatcher.
C8_TooSmallSkips ==
  (FlushReturned /\ devs[last.arg].d_buf.proto = IP_PROTO_TCP
     /\ last.d_len0 < HdrLen) =>
    last.sent = <<>>

\* C9: when the header declares TCP and d_len is at least the combined
\* header length hdrlen, sixlowpan_tcp_send() invokes the dispatcher exactly
\* once, with the device, the payload at offset hdrlen, the payload length
\* d_len - hdrlen and the link-layer address derived from the destination
\* address of the header.
C9_DispatchesPayload ==
  (FlushReturned /\ devs[last.arg].d_buf.proto = IP_PROTO_TCP
     /\ last.d_len0 >= HdrLen) =>
    /\ Len(last.sent) = 1
    /\ last.sent[1].fn = "sixlowpan_queue_frames"
    /\ last.sent[1].dev = last.arg
    /\ last.sent[1].off = HdrLen
    /\ last.sent[1].len = last.d_len0 - HdrLen
    /\ last.sent[1].dest = sixlowpan_rimefromip(devs[last.arg].d_buf.destipaddr)

\* C10: when the first header of the pending output declares a protocol
\* other than TCP, sixlowpan_tcp_send() does not invoke the dispatcher,
\* emits exactly one warning and resets d_len to zero.
C10_NonTcpSkipped ==
  (FlushReturned /\ devs[last.arg].d_buf.proto # IP_PROTO_TCP) =>
    /\ last.sent = <<>>
    /\ last.nwarn = 1
    /\ devs[last.arg].d_len = 0

C10_Witness ==
  /\ FlushReturned /\ devs[last.arg].d_buf.proto # IP_PROTO_TCP
  /\ last.d_len0 = HdrLen
  /\ last.sent = <<>> /\ last.nwarn = 1 /\ devs[last.arg].d_len = 0

\* last is a call of sixlowpan_tcp_send() on an existing device whose
\* transmit buffer was already empty (d_len = 0), as a completed call of
\* sixlowpan_tcp_send() leaves it.
FlushAgain ==
  /\ last.op = "sixlowpan_tcp_send" /\ last.arg \in DevIds
  /\ last.d_len0 = 0

C13_WrongFamily ==
  (SendOn /\ cfg.NET_IPv4 /\ Referenced /\ Established /\ ~IsIPv6) =>
    /\ last.outcome = "return" /\ last.ret = -EPROTOTYPE
    /\ last.ndevlookup = 0 /\ last.sent = <<>>

C15_PayloadInBuffer ==
  (last.op = "sixlowpan_tcp_send" /\ last.arg \in DevIds) =>
    \A i \in 1..Len(last.sent) :
      /\ last.sent[i].len \in 0..last.d_len0
      /\ last.sent[i].off + last.sent[i].len <= last.d_len0

\* The errno of the first failure condition, in the order of the checks,
\* that holds of the socket of the call; 0 when none holds.
FirstFailure ==
  IF ~Referenced THEN EBADF
  ELSE IF ~Established THEN ENOTCONN
  ELSE IF cfg.NET_IPv4 /\ ~IsIPv6 THEN EPROTOTYPE
  ELSE IF ~PeerRoutable \/ (cfg.NET_ICMPv6_NEIGHBOR /\ Peer \notin g_neighbors)
    THEN ENETUNREACH
  ELSE 0

\* C16: psock_6lowpan_tcp_send() checks its failure conditions in the order
\* -EBADF, -ENOTCONN, -EPROTOTYPE, -ENETUNREACH: when any of them hold, the
\* error returned is that of the first one that holds.  (Build without
\* debug assertions.)
C16_FirstFailureReturned ==
  (SendOn /\ ~cfg.DEBUG_ASSERTIONS /\ FirstFailure # 0) =>
    last.outcome = "return" /\ last.ret = -FirstFailure

\* C17: sixlowpan_tcp_send() called with a NULL device makes no dispatch
\* and no read or write through the device pointer, the final reset of
\* d_len included.
C17_NullDeviceUntouched ==
  (last.op = "sixlowpan_tcp_send" /\ last.arg = NULL) =>
    /\ last.sent = <<>>
    /\ ~last.nullderef

\* The bits of a flag word other than the send state.
OtherFlags(flags) == flags - _SS_GETSTATE(flags)

\* A step that is a call of psock_6lowpan_tcp_send() changes nothing but
\* the send-state bits of s_flags in any socket, and no device.
SendFrame ==
  last'.op = "psock_6lowpan_tcp_send" =>
    /\ devs' = devs
    /\ \A i \in SockIds :
         /\ socks'[i] = [socks[i] EXCEPT !.s_flags = socks'[i].s_flags]
         /\ OtherFlags(socks'[i].s_flags) = OtherFlags(socks[i].s_flags)

\* A step that is a call of sixlowpan_tcp_send() changes no socket, and in
\* the devices nothing but the d_len of the device it is called on.
FlushFrame ==
  last'.op = "sixlowpan_tcp_send" =>
    /\ socks' = socks
    /\ \A d \in DevIds :
         /\ devs'[d] = [devs[d] EXCEPT !.d_len = devs'[d].d_len]
         /\ d # last'.arg => devs'[d] = devs[d]

\* C18: a call of psock_6lowpan_tcp_send() changes nothing on the socket
\* except the send-state bits of its flags (connected flag, type, reference
\* count and connection are unchanged on every exit) and no d_len of a
\* device; a call of sixlowpan_tcp_send() changes no socket state and no
\* field of the device other than d_len.
C18_Frame == [][SendFrame /\ FlushFrame]_vars

C18_Witness ==
  /\ SendReturned /\ Referenced /\ Established
  /\ _SS_GETSTATE(last.flags0) = _SF_RECV
  /\ socks[last.arg].s_flags = last.flags0

====
